---- MODULE Spec2Model ----
(***************************************************************************)
(* A model of src/app.py, the multiple-choice quiz application.            *)
(*                                                                         *)
(* The application is a script (main) that is executed from top to bottom  *)
(* on every user interaction; its only memory between two executions is    *)
(* the session_state dictionary, the state of the widgets and the results  *)
(* file on disk.  One step of the model is one execution of the script.    *)
(*                                                                         *)
(* Representation of Python values:                                        *)
(*   - a str on which the code works character by character (strip,        *)
(*     lstrip, upper, split, endswith, f-strings) is a sequence of         *)
(*     one-character strings; user names, on which the code only tests     *)
(*     truthiness and equality, are atomic strings;                        *)
(*   - a dict is a function whose DOMAIN is the set of keys present;       *)
(*   - None is the empty tuple where the other values are non-empty        *)
(*     tuples, and an optional scalar x is <<x>>;                          *)
(*   - a list index i of the code is position i + 1 of a sequence.         *)
(***************************************************************************)
EXTENDS Integers, Sequences, FiniteSets, TLC

VARIABLES
    session_state,  \* st.session_state: dict from the SS_ keys to values
    uploaded_file,  \* the value of the file_uploader widget: None or <<file>>
    widget_state,   \* the radio widgets' state: question index -> None or <<option position>>
    results_file,   \* RESULTS_FILE on disk: [exists, rows]
    notices,        \* what the last execution of the script displayed
    rerun           \* TRUE when st.rerun() has scheduled a new execution

vars == <<session_state, uploaded_file, widget_state, results_file, notices, rerun>>

---------------------------------------------------------------------------
(* Bounds of the model.                                                    *)

MaxRows == 2        \* longest table drawn for the loader specification
MaxStore == 2       \* an attempt is started only while the results file is shorter

---------------------------------------------------------------------------
(* Python values and builtins.                                             *)

None == <<>>
Some(x) == <<x>>

Put(d, k, v) == [x \in DOMAIN d \cup {k} |-> IF x = k THEN v ELSE d[x]]
Del(d, k) == [x \in DOMAIN d \ {k} |-> d[x]]

Whitespace == {" ", "\t"}
Quotes == {"\"", "'"}

LowerCase == <<"a", "b", "c", "d", "e", "f", "g", "h", "i", "j", "k", "l", "m",
               "n", "o", "p", "q", "r", "s", "t", "u", "v", "w", "x", "y", "z">>
UpperCase == <<"A", "B", "C", "D", "E", "F", "G", "H", "I", "J", "K", "L", "M",
               "N", "O", "P", "Q", "R", "S", "T", "U", "V", "W", "X", "Y", "Z">>

upper_char(c) ==
    IF \E i \in 1..Len(LowerCase) : LowerCase[i] = c
    THEN UpperCase[CHOOSE i \in 1..Len(LowerCase) : LowerCase[i] = c]
    ELSE c

upper(s) == IF s = <<>> THEN <<>> ELSE [i \in 1..Len(s) |-> upper_char(s[i])]

RECURSIVE lstrip(_, _)
lstrip(s, chars) ==
    IF s # <<>> /\ Head(s) \in chars THEN lstrip(Tail(s), chars) ELSE s

RECURSIVE rstrip(_, _)
rstrip(s, chars) ==
    IF s # <<>> /\ s[Len(s)] \in chars
    THEN rstrip(SubSeq(s, 1, Len(s) - 1), chars)
    ELSE s

strip(s) == rstrip(lstrip(s, Whitespace), Whitespace)

endswith(s, suffix) ==
    /\ Len(s) >= Len(suffix)
    /\ SubSeq(s, Len(s) - Len(suffix) + 1, Len(s)) = suffix

\* s.split(sep)[0] for a one-character separator
RECURSIVE split_first(_, _)
split_first(s, sep) ==
    IF s = <<>> \/ Head(s) = sep
    THEN <<>>
    ELSE <<Head(s)>> \o split_first(Tail(s), sep)

\* sep.join(items)
RECURSIVE join(_, _)
join(sep, items) ==
    IF items = <<>> THEN <<>>
    ELSE IF Len(items) = 1 THEN items[1]
    ELSE items[1] \o sep \o join(sep, Tail(items))

---------------------------------------------------------------------------
(* Constants of the program.                                               *)

COL_IDX_QUESTION == 0
COL_IDX_OPTION_A == 1
COL_IDX_OPTION_B == 2
COL_IDX_OPTION_C == 3
COL_IDX_OPTION_D == 4
COL_IDX_CORRECT_ANSWER_LETTER == 5

SS_QUIZ_DATA == "quiz_data_uploaded_mc"
SS_USER == "user_uploaded_mc"
SS_CURRENT_INDEX == "current_card_index_uploaded_mc"
SS_FLASHCARDS == "flashcards_uploaded_mc"
SS_LOADED_FILE_NAME == "_loaded_file_name_uploaded_mc"

QK_STARTED == "quiz_started"
QK_CORRECT_COUNT == "correct_count"
QK_INCORRECT_COUNT == "incorrect_count"
QK_CORRECT_QUESTIONS == "correct_questions"
QK_INCORRECT_QUESTIONS == "incorrect_questions"
QK_SHOW_ANSWER == "show_answer"
QK_USER_SELECTED_OPTION == "user_selected_option"
QK_SUBMITTED == "submitted"
QK_SHOW_ANSWER_CLICKED == "show_answer_clicked"
QK_USED_QUESTIONS == "used_questions"
QK_CURRENT_OPTIONS_DISPLAY == "current_options_display"
QK_LAST_ANSWER_CORRECT == "last_answer_correct"
RESULTS_RECORDED == "results_recorded"

A == <<"A">>
B == <<"B">>
C == <<"C">>
D == <<"D">>

NoAnswer == <<"N", "o", " ", "a", "n", "s", "w", "e", "r">>

_get_default_quiz_state ==
    [k \in {QK_STARTED, QK_CORRECT_COUNT, QK_INCORRECT_COUNT, QK_CORRECT_QUESTIONS,
            QK_INCORRECT_QUESTIONS, QK_SHOW_ANSWER, QK_USER_SELECTED_OPTION,
            QK_SUBMITTED, QK_SHOW_ANSWER_CLICKED, QK_USED_QUESTIONS,
            QK_CURRENT_OPTIONS_DISPLAY, QK_LAST_ANSWER_CORRECT} |->
        CASE k = QK_STARTED -> TRUE
          [] k = QK_CORRECT_COUNT -> 0
          [] k = QK_INCORRECT_COUNT -> 0
          [] k = QK_CORRECT_QUESTIONS -> <<>>
          [] k = QK_INCORRECT_QUESTIONS -> <<>>
          [] k = QK_SHOW_ANSWER -> FALSE
          [] k = QK_USER_SELECTED_OPTION -> None
          [] k = QK_SUBMITTED -> FALSE
          [] k = QK_SHOW_ANSWER_CLICKED -> FALSE
          [] k = QK_USED_QUESTIONS -> {}
          [] k = QK_CURRENT_OPTIONS_DISPLAY -> None
          [] k = QK_LAST_ANSWER_CORRECT -> None]

---------------------------------------------------------------------------
(* The loader.  An uploaded file is [name, parses, ncols, rows]: its name,  *)
(* whether pandas reads it without raising, the number of columns of the   *)
(* table read and its data rows, each a tuple of ncols cells.  A cell is   *)
(* the str() of the value pandas read.                                     *)

Notice(text, n) == <<text, n>>

DotCsv == <<".", "c", "s", "v">>
DotXlsx == <<".", "x", "l", "s", "x">>
DotXls == <<".", "x", "l", "s">>

\* lines 111-116
row_options(row) ==
    [k \in {A, B, C, D} |->
        CASE k = A -> row[COL_IDX_OPTION_A + 1]
          [] k = B -> row[COL_IDX_OPTION_B + 1]
          [] k = C -> row[COL_IDX_OPTION_C + 1]
          [] k = D -> row[COL_IDX_OPTION_D + 1]]

\* the normalisation removing one quote character from each end
correct_letter_of_one_layer(field) ==
    LET correct_letter_raw == strip(field)
        unquoted_left == IF correct_letter_raw # <<>> /\ Head(correct_letter_raw) \in Quotes
                         THEN Tail(correct_letter_raw) ELSE correct_letter_raw
        unquoted == IF unquoted_left # <<>> /\ unquoted_left[Len(unquoted_left)] \in Quotes
                    THEN SubSeq(unquoted_left, 1, Len(unquoted_left) - 1)
                    ELSE unquoted_left
    IN upper(unquoted)

\* the normalisation removing double quotes only
correct_letter_of_double_quotes_only(field) ==
    LET correct_letter_raw == strip(field)
    IN upper(rstrip(lstrip(correct_letter_raw, {"\""}), {"\""}))

\* lines 118-120
correct_letter_of(field) ==
    LET correct_letter_raw == strip(field)
    IN upper(rstrip(lstrip(correct_letter_raw, Quotes), Quotes))

\* the loop numbering the questions by their place in the bank
RECURSIVE iterrows_renumbered(_, _, _)
iterrows_renumbered(rows, index, acc) ==
    IF index >= Len(rows) THEN acc
    ELSE
        LET row == rows[index + 1]
            options == row_options(row)
            correct_letter == correct_letter_of(row[COL_IDX_CORRECT_ANSWER_LETTER + 1])
            question_text == row[COL_IDX_QUESTION + 1]
        IN  IF correct_letter \notin DOMAIN options
            THEN iterrows_renumbered(rows, index + 1,
                    [acc EXCEPT !.notices = @ \cup
                        {Notice("Invalid correct answer letter. Skipping question.", index + 2)}])
            ELSE IF strip(question_text) = <<>>
            THEN iterrows_renumbered(rows, index + 1,
                    [acc EXCEPT !.notices = @ \cup
                        {Notice("Empty question text. Skipping question.", index + 2)}])
            ELSE iterrows_renumbered(rows, index + 1,
                    [acc EXCEPT !.quiz_data = Append(@,
                        [original_index |-> Len(acc.quiz_data),
                         question |-> question_text,
                         options |-> options,
                         correct_option_letter |-> correct_letter,
                         correct_answer_text |-> options[correct_letter]])])

\* the body of the loop over df.iterrows(), lines 110-140: acc is
\* [quiz_data, notices] after the rows before index
RECURSIVE iterrows(_, _, _)
iterrows(rows, index, acc) ==
    IF index >= Len(rows) THEN acc
    ELSE
        LET row == rows[index + 1]
            options == row_options(row)
            correct_letter == correct_letter_of(row[COL_IDX_CORRECT_ANSWER_LETTER + 1])
            question_text == row[COL_IDX_QUESTION + 1]
        IN  IF correct_letter \notin DOMAIN options
            THEN iterrows(rows, index + 1,
                    [acc EXCEPT !.notices = @ \cup
                        {Notice("Invalid correct answer letter. Skipping question.", index + 2)}])
            ELSE IF strip(question_text) = <<>>
            THEN iterrows(rows, index + 1,
                    [acc EXCEPT !.notices = @ \cup
                        {Notice("Empty question text. Skipping question.", index + 2)}])
            ELSE iterrows(rows, index + 1,
                    [acc EXCEPT !.quiz_data = Append(@,
                        [original_index |-> index,
                         question |-> question_text,
                         options |-> options,
                         correct_option_letter |-> correct_letter,
                         correct_answer_text |-> options[correct_letter]])])

\* the loader looking at the columns before looking at the rows
load_quiz_data_from_file_columns_first(file) ==
    LET fname == file.name
        failed(text) == [quiz_data |-> None, notices |-> {Notice(text, 0)}]
    IN  IF ~(endswith(fname, DotCsv) \/ endswith(fname, DotXlsx) \/ endswith(fname, DotXls))
        THEN failed("Unsupported file format.")
        ELSE IF ~file.parses
        THEN failed("An error occurred while reading the file")
        ELSE IF file.ncols < 6
        THEN [quiz_data |-> None,
              notices |-> {Notice("Uploaded file must contain at least 6 columns.", file.ncols)}]
        ELSE IF Len(file.rows) = 0 \/ file.ncols = 0
        THEN failed("The file is empty.")
        ELSE
            LET loaded == iterrows(file.rows, 0, [quiz_data |-> <<>>, notices |-> {}])
            IN  IF loaded.quiz_data = <<>>
                THEN [quiz_data |-> None,
                      notices |-> loaded.notices \cup
                          {Notice("No valid questions found in the uploaded file.", 0)}]
                ELSE loaded

\* load_quiz_data_from_file: [quiz_data, notices], quiz_data None on failure
load_quiz_data_from_file(file) ==
    LET fname == file.name
        failed(text) == [quiz_data |-> None, notices |-> {Notice(text, 0)}]
    IN  IF ~(endswith(fname, DotCsv) \/ endswith(fname, DotXlsx) \/ endswith(fname, DotXls))
        THEN failed("Unsupported file format.")
        ELSE IF ~file.parses
        THEN failed("An error occurred while reading the file")
        ELSE IF Len(file.rows) = 0 \/ file.ncols = 0
        THEN failed("The file is empty.")
        ELSE IF file.ncols < 6
        THEN [quiz_data |-> None,
              notices |-> {Notice("Uploaded file must contain at least 6 columns.", file.ncols)}]
        ELSE
            LET loaded == iterrows(file.rows, 0, [quiz_data |-> <<>>, notices |-> {}])
            IN  IF loaded.quiz_data = <<>>
                THEN [quiz_data |-> None,
                      notices |-> loaded.notices \cup
                          {Notice("No valid questions found in the uploaded file.", 0)}]
                ELSE loaded

---------------------------------------------------------------------------
(* The quiz session: the functions called by main.  Each takes the        *)
(* session_state dictionary and returns it as the function leaves it.      *)

\* start_quiz leaving the current index in place
start_quiz_keeps_index(ss, quiz_data) ==
    Put(Put(ss, SS_FLASHCARDS, quiz_data), SS_QUIZ_DATA, _get_default_quiz_state)

\* start_quiz, before its st.rerun()
start_quiz(ss, quiz_data) ==
    Del(Put(Put(ss, SS_FLASHCARDS, quiz_data), SS_QUIZ_DATA, _get_default_quiz_state),
        SS_CURRENT_INDEX)

\* the list the radio shows, lines 177-182
options_display_of(question_data) ==
    << <<"A", ":", " ">> \o question_data.options[A],
       <<"B", ":", " ">> \o question_data.options[B],
       <<"C", ":", " ">> \o question_data.options[C],
       <<"D", ":", " ">> \o question_data.options[D] >>

\* display_question: [ss, selected]; radio_value is the state of the radio
\* widget of this question, None or <<position of the selected option>>
display_question(ss, question_data, radio_value) ==
    LET options_display == options_display_of(question_data)
    IN  [ss |-> Put(ss, SS_QUIZ_DATA,
                    Put(ss[SS_QUIZ_DATA], QK_CURRENT_OPTIONS_DISPLAY, options_display)),
         selected |->
            IF radio_value # None
            THEN strip(split_first(options_display[radio_value[1] + 1], ":"))
            ELSE None]

\* check_answer comparing the letters the wrong way round
check_answer_inverted(user_selected_option_letter, correct_option_letter) ==
    IF user_selected_option_letter = None
    THEN FALSE
    ELSE upper(strip(user_selected_option_letter)) # upper(strip(correct_option_letter))

check_answer(user_selected_option_letter, correct_option_letter) ==
    IF user_selected_option_letter = None
    THEN FALSE
    ELSE upper(strip(user_selected_option_letter)) = upper(strip(correct_option_letter))

IncorrectEntry(question, correct, yours) ==
    ("Question" :> question) @@ ("Correct Answer" :> correct) @@ ("Your Answer" :> yours)

CorrectEntry(question, correct) ==
    ("Question" :> question) @@ ("Correct Answer" :> correct)

\* handle_incorrect_answer logging the question without counting it
handle_incorrect_answer_uncounted(quiz_data, current_card, user_selected_option_letter) ==
    IF current_card.original_index \notin quiz_data[QK_USED_QUESTIONS]
    THEN
        LET user_answer_text ==
                IF /\ user_selected_option_letter # None
                   /\ user_selected_option_letter \in DOMAIN current_card.options
                THEN current_card.options[user_selected_option_letter]
                ELSE NoAnswer
        IN  Put(quiz_data, QK_INCORRECT_QUESTIONS,
                Append(quiz_data[QK_INCORRECT_QUESTIONS],
                       IncorrectEntry(current_card.question,
                                      current_card.correct_answer_text,
                                      user_answer_text)))
    ELSE quiz_data

\* handle_incorrect_answer putting the new entry at the head of the log
handle_incorrect_answer_prepends(quiz_data, current_card, user_selected_option_letter) ==
    IF current_card.original_index \notin quiz_data[QK_USED_QUESTIONS]
    THEN
        LET user_answer_text ==
                IF /\ user_selected_option_letter # None
                   /\ user_selected_option_letter \in DOMAIN current_card.options
                THEN current_card.options[user_selected_option_letter]
                ELSE NoAnswer
        IN  Put(Put(quiz_data, QK_INCORRECT_COUNT, quiz_data[QK_INCORRECT_COUNT] + 1),
                QK_INCORRECT_QUESTIONS,
                <<IncorrectEntry(current_card.question,
                                 current_card.correct_answer_text,
                                 user_answer_text)>>
                    \o quiz_data[QK_INCORRECT_QUESTIONS])
    ELSE quiz_data

\* handle_incorrect_answer on the quiz_data dictionary
handle_incorrect_answer(quiz_data, current_card, user_selected_option_letter) ==
    IF current_card.original_index \notin quiz_data[QK_USED_QUESTIONS]
    THEN
        LET user_answer_text ==
                IF /\ user_selected_option_letter # None
                   /\ user_selected_option_letter \in DOMAIN current_card.options
                THEN current_card.options[user_selected_option_letter]
                ELSE NoAnswer
        IN  Put(Put(quiz_data, QK_INCORRECT_COUNT, quiz_data[QK_INCORRECT_COUNT] + 1),
                QK_INCORRECT_QUESTIONS,
                Append(quiz_data[QK_INCORRECT_QUESTIONS],
                       IncorrectEntry(current_card.question,
                                      current_card.correct_answer_text,
                                      user_answer_text)))
    ELSE quiz_data

\* handle_submit forgetting to mark the question as used
handle_submit_not_marked(ss, current_card_index) ==
    LET quiz_data == ss[SS_QUIZ_DATA]
        current_card == ss[SS_FLASHCARDS][current_card_index + 1]
        user_selected_option_letter == quiz_data[QK_USER_SELECTED_OPTION]
        is_correct == check_answer(user_selected_option_letter,
                                   current_card.correct_option_letter)
        qd1 == Put(quiz_data, QK_LAST_ANSWER_CORRECT, Some(is_correct))
        qd2 == IF is_correct
               THEN Put(Put(qd1, QK_CORRECT_COUNT, qd1[QK_CORRECT_COUNT] + 1),
                        QK_CORRECT_QUESTIONS,
                        Append(qd1[QK_CORRECT_QUESTIONS],
                               CorrectEntry(current_card.question,
                                            current_card.correct_answer_text)))
               ELSE handle_incorrect_answer(qd1, current_card,
                                            user_selected_option_letter)
    IN  Put(ss, SS_QUIZ_DATA, Put(Put(qd2, QK_SUBMITTED, TRUE), QK_SHOW_ANSWER, TRUE))

\* handle_submit counting a right answer without looking at used_questions
handle_submit_unguarded(ss, current_card_index) ==
    LET quiz_data == ss[SS_QUIZ_DATA]
        current_card == ss[SS_FLASHCARDS][current_card_index + 1]
        user_selected_option_letter == quiz_data[QK_USER_SELECTED_OPTION]
        is_correct == check_answer(user_selected_option_letter,
                                   current_card.correct_option_letter)
        qd1 == Put(quiz_data, QK_LAST_ANSWER_CORRECT, Some(is_correct))
        qd2 == IF is_correct
               THEN Put(Put(qd1, QK_CORRECT_COUNT, qd1[QK_CORRECT_COUNT] + 1),
                        QK_CORRECT_QUESTIONS,
                        Append(qd1[QK_CORRECT_QUESTIONS],
                               CorrectEntry(current_card.question,
                                            current_card.correct_answer_text)))
               ELSE handle_incorrect_answer(qd1, current_card,
                                            user_selected_option_letter)
        qd3 == Put(Put(qd2, QK_SUBMITTED, TRUE), QK_SHOW_ANSWER, TRUE)
    IN  Put(ss, SS_QUIZ_DATA,
            Put(qd3, QK_USED_QUESTIONS,
                qd3[QK_USED_QUESTIONS] \cup {current_card.original_index}))

\* handle_submit, before its st.rerun()
handle_submit(ss, current_card_index) ==
    LET quiz_data == ss[SS_QUIZ_DATA]
        current_card == ss[SS_FLASHCARDS][current_card_index + 1]
        user_selected_option_letter == quiz_data[QK_USER_SELECTED_OPTION]
        is_correct == check_answer(user_selected_option_letter,
                                   current_card.correct_option_letter)
        qd1 == Put(quiz_data, QK_LAST_ANSWER_CORRECT, Some(is_correct))
        qd2 == IF is_correct
               THEN IF current_card.original_index \notin qd1[QK_USED_QUESTIONS]
                    THEN Put(Put(qd1, QK_CORRECT_COUNT, qd1[QK_CORRECT_COUNT] + 1),
                             QK_CORRECT_QUESTIONS,
                             Append(qd1[QK_CORRECT_QUESTIONS],
                                    CorrectEntry(current_card.question,
                                                 current_card.correct_answer_text)))
                    ELSE qd1
               ELSE IF current_card.original_index \notin qd1[QK_USED_QUESTIONS]
                    THEN handle_incorrect_answer(qd1, current_card,
                                                 user_selected_option_letter)
                    ELSE qd1
        qd3 == Put(Put(qd2, QK_SUBMITTED, TRUE), QK_SHOW_ANSWER, TRUE)
    IN  Put(ss, SS_QUIZ_DATA,
            Put(qd3, QK_USED_QUESTIONS,
                qd3[QK_USED_QUESTIONS] \cup {current_card.original_index}))

\* handle_show_answer grading the pending selection when there is one
handle_show_answer_graded(ss, current_card_index) ==
    LET quiz_data == ss[SS_QUIZ_DATA]
        current_card == ss[SS_FLASHCARDS][current_card_index + 1]
        qd1 == IF current_card.original_index \notin quiz_data[QK_USED_QUESTIONS]
               THEN Put(quiz_data, QK_LAST_ANSWER_CORRECT, Some(FALSE))
               ELSE quiz_data
        qd2 == Put(Put(qd1, QK_SHOW_ANSWER, TRUE), QK_SHOW_ANSWER_CLICKED, TRUE)
        qd3 == IF current_card.original_index \notin qd2[QK_USED_QUESTIONS]
               THEN LET counted == handle_incorrect_answer(
                                       qd2, current_card, qd2[QK_USER_SELECTED_OPTION])
                    IN  Put(counted, QK_USED_QUESTIONS,
                            counted[QK_USED_QUESTIONS] \cup {current_card.original_index})
               ELSE qd2
    IN  IF quiz_data[QK_USER_SELECTED_OPTION] # None
        THEN Put(handle_submit(ss, current_card_index), SS_QUIZ_DATA,
                 Put(handle_submit(ss, current_card_index)[SS_QUIZ_DATA],
                     QK_SHOW_ANSWER_CLICKED, TRUE))
        ELSE Put(ss, SS_QUIZ_DATA, Put(qd3, QK_SUBMITTED, TRUE))

\* handle_show_answer, before its st.rerun()
handle_show_answer(ss, current_card_index) ==
    LET quiz_data == ss[SS_QUIZ_DATA]
        current_card == ss[SS_FLASHCARDS][current_card_index + 1]
        qd1 == IF current_card.original_index \notin quiz_data[QK_USED_QUESTIONS]
               THEN Put(quiz_data, QK_LAST_ANSWER_CORRECT, Some(FALSE))
               ELSE quiz_data
        qd2 == Put(Put(qd1, QK_SHOW_ANSWER, TRUE), QK_SHOW_ANSWER_CLICKED, TRUE)
        qd3 == IF current_card.original_index \notin qd2[QK_USED_QUESTIONS]
               THEN LET counted == handle_incorrect_answer(
                                       qd2, current_card, qd2[QK_USER_SELECTED_OPTION])
                    IN  Put(counted, QK_USED_QUESTIONS,
                            counted[QK_USED_QUESTIONS] \cup {current_card.original_index})
               ELSE qd2
    IN  Put(ss, SS_QUIZ_DATA, Put(qd3, QK_SUBMITTED, TRUE))

\* handle_next_question forgetting which questions were used
handle_next_question_forgets(ss) ==
    LET quiz_data == ss[SS_QUIZ_DATA]
        cleared == [k \in DOMAIN quiz_data |->
                      CASE k = QK_SHOW_ANSWER -> FALSE
                        [] k = QK_SUBMITTED -> FALSE
                        [] k = QK_SHOW_ANSWER_CLICKED -> FALSE
                        [] k = QK_USER_SELECTED_OPTION -> None
                        [] k = QK_CURRENT_OPTIONS_DISPLAY -> None
                        [] k = QK_LAST_ANSWER_CORRECT -> None
                        [] k = QK_USED_QUESTIONS -> {}
                        [] OTHER -> quiz_data[k]]
    IN  Del(Put(ss, SS_QUIZ_DATA, cleared), SS_CURRENT_INDEX)

\* handle_next_question, before its st.rerun()
handle_next_question(ss) ==
    LET quiz_data == ss[SS_QUIZ_DATA]
        cleared == [k \in DOMAIN quiz_data |->
                      CASE k = QK_SHOW_ANSWER -> FALSE
                        [] k = QK_SUBMITTED -> FALSE
                        [] k = QK_SHOW_ANSWER_CLICKED -> FALSE
                        [] k = QK_USER_SELECTED_OPTION -> None
                        [] k = QK_CURRENT_OPTIONS_DISPLAY -> None
                        [] k = QK_LAST_ANSWER_CORRECT -> None
                        [] OTHER -> quiz_data[k]]
    IN  Del(Put(ss, SS_QUIZ_DATA, cleared), SS_CURRENT_INDEX)

---------------------------------------------------------------------------
(* The results file.  results_file is [exists, rows]: whether RESULTS_FILE *)
(* exists and the records it holds, oldest first.  The timestamp of a      *)
(* record (the clock at the moment of recording) is not modelled.          *)

ReadOutcomes == {"read", "read fails"}
SaveOutcomes == {"saved", "save fails before writing", "save fails after truncating"}

\* load_quiz_results: [results, notices]
load_quiz_results(file, read_outcome) ==
    IF file.exists
    THEN IF file.rows = <<>>
         THEN [results |-> <<>>, notices |-> {}]      \* EmptyDataError
         ELSE IF read_outcome = "read"
         THEN [results |-> file.rows, notices |-> {}]
         ELSE [results |-> <<>>, notices |-> {Notice("Error loading results file", 0)}]
    ELSE [results |-> <<>>, notices |-> {}]

\* save_quiz_results: [file, notices]
save_quiz_results(file, results, save_outcome) ==
    CASE save_outcome = "saved" ->
            [file |-> [exists |-> TRUE, rows |-> results], notices |-> {}]
      [] save_outcome = "save fails before writing" ->
            [file |-> file, notices |-> {Notice("Error saving results file", 0)}]
      [] save_outcome = "save fails after truncating" ->
            [file |-> [exists |-> TRUE, rows |-> <<>>],
             notices |-> {Notice("Error saving results file", 0)}]

\* an entry of incorrect_details that repeats the correct answer as the user's
incorrect_detail_wrong_field(item) ==
    <<"Q", ":", " ">> \o item["Question"]
        \o <<" ", "|", " ", "A", ":", " ">> \o item["Correct Answer"]
        \o <<" ", "|", " ", "Y", "o", "u", "r", ":", " ">> \o item["Correct Answer"]

\* one entry of incorrect_details, lines 370-372
incorrect_detail(item) ==
    <<"Q", ":", " ">> \o item["Question"]
        \o <<" ", "|", " ", "A", ":", " ">> \o item["Correct Answer"]
        \o <<" ", "|", " ", "Y", "o", "u", "r", ":", " ">> \o item["Your Answer"]

\* the test of line 360 without its "not user" half
user_not_set_default_only(user) == user = "Unknown"

\* line 360
user_not_set(user) == user = "" \/ user = "Unknown"

\* record_quiz_attempt: [file, notices]
record_quiz_attempt(ss, file, read_outcome, save_outcome) ==
    LET quiz_data == ss[SS_QUIZ_DATA]
        flashcards == ss[SS_FLASHCARDS]
        user == IF SS_USER \in DOMAIN ss THEN ss[SS_USER] ELSE "Unknown"
    IN  IF user_not_set(user)
        THEN [file |-> file,
              notices |-> {Notice("User name not set. Results cannot be saved.", 0)}]
        ELSE
            LET loaded == load_quiz_results(file, read_outcome)
                incorrect_details ==
                    [i \in 1..Len(quiz_data[QK_INCORRECT_QUESTIONS]) |->
                        incorrect_detail(quiz_data[QK_INCORRECT_QUESTIONS][i])]
                incorrect_questions_str == join(<<";", " ">>, incorrect_details)
                record ==
                    [k \in {"User", "Correct Count", "Incorrect Count",
                            "Total Questions", "Incorrect Details"} |->
                        CASE k = "User" -> user
                          [] k = "Correct Count" -> quiz_data[QK_CORRECT_COUNT]
                          [] k = "Incorrect Count" -> quiz_data[QK_INCORRECT_COUNT]
                          [] k = "Total Questions" -> Len(flashcards)
                          [] k = "Incorrect Details" -> incorrect_questions_str]
                saved == save_quiz_results(file, Append(loaded.results, record),
                                           save_outcome)
            IN  [file |-> saved.file,
                 notices |-> loaded.notices \cup saved.notices
                                \cup {Notice("Quiz results recorded.", 0)}]

---------------------------------------------------------------------------
(* main, one execution of the script.  click is the button pressed in     *)
(* this execution ("none" when the execution was caused by something      *)
(* else), user_name the text typed into the name field ("" when it was    *)
(* not edited: the field then holds "" or the name already stored, and    *)
(* lines 414-417 leave the stored name as it is).  Each section returns   *)
(* the set of its possible outcomes; an outcome with rerun = TRUE ended   *)
(* the execution with st.rerun().                                          *)

\* lines 411-417
user_section(ss, user_name) ==
    LET s0 == IF SS_USER \notin DOMAIN ss THEN Put(ss, SS_USER, "") ELSE ss
    IN  IF user_name # "" THEN Put(s0, SS_USER, user_name) ELSE s0

\* the clearing after a failed load leaving the quiz state behind
clear_quiz_keys_keeps_session(ss) ==
    Del(Del(Del(ss, SS_FLASHCARDS), SS_LOADED_FILE_NAME), SS_CURRENT_INDEX)

\* lines 486-494 and 501-507
clear_quiz_keys(ss) ==
    Del(Del(Del(Del(ss, SS_FLASHCARDS), SS_LOADED_FILE_NAME), SS_QUIZ_DATA),
        SS_CURRENT_INDEX)

\* lines 466-508: [ss, rerun, notices]
file_section(ss, uploaded) ==
    IF uploaded # None
    THEN
        LET current_file_name == uploaded[1].name
            previous_file_name == IF SS_LOADED_FILE_NAME \in DOMAIN ss
                                  THEN ss[SS_LOADED_FILE_NAME] ELSE None
        IN  IF SS_FLASHCARDS \notin DOMAIN ss \/ current_file_name # previous_file_name
            THEN
                LET loaded == load_quiz_data_from_file(uploaded[1])
                IN  IF loaded.quiz_data # None
                    THEN [ss |-> Del(Put(Put(Put(ss,
                                    SS_FLASHCARDS, loaded.quiz_data),
                                    SS_LOADED_FILE_NAME, current_file_name),
                                    SS_QUIZ_DATA,
                                    Put(_get_default_quiz_state, QK_STARTED, FALSE)),
                                    SS_CURRENT_INDEX),
                          rerun |-> TRUE,
                          notices |-> loaded.notices \cup
                              {Notice("Loaded quiz questions", Len(loaded.quiz_data))}]
                    ELSE [ss |-> clear_quiz_keys(ss), rerun |-> FALSE,
                          notices |-> loaded.notices]
            ELSE [ss |-> ss, rerun |-> FALSE, notices |-> {}]
    ELSE IF SS_FLASHCARDS \in DOMAIN ss
    THEN [ss |-> clear_quiz_keys(ss), rerun |-> TRUE,
          notices |-> {Notice("File removed. Clearing quiz data.", 0)}]
    ELSE [ss |-> ss, rerun |-> FALSE, notices |-> {}]

Outcome(ss, file, shown, rerun_, rendered, clicked) ==
    [ss |-> ss, file |-> file, notices |-> shown, rerun |-> rerun_,
     rendered |-> rendered, clicked |-> clicked]

\* the completion display recording the attempt on every execution
completion_unguarded(ss, file, click) ==
    LET quiz_data == ss[SS_QUIZ_DATA]
        shown == {Notice("Quiz Completed!", Len(ss[SS_FLASHCARDS])),
                  Notice("Correct Answers", quiz_data[QK_CORRECT_COUNT]),
                  Notice("Incorrect Answers", quiz_data[QK_INCORRECT_COUNT])}
    IN  IF click = "restart results"
        THEN {Outcome(start_quiz(ss, ss[SS_FLASHCARDS]), file, shown, TRUE, {}, TRUE)}
        ELSE
            LET flagged == Put(ss, SS_QUIZ_DATA, Put(quiz_data, RESULTS_RECORDED, TRUE))
            IN  { LET rec == record_quiz_attempt(ss, file, r, w)
                  IN  Outcome(flagged, rec.file, shown \cup rec.notices, FALSE, {}, FALSE)
                  : r \in ReadOutcomes, w \in SaveOutcomes }

\* lines 555-560, the quiz is complete: display_quiz_results, then the
\* attempt is recorded once
completion(ss, file, click) ==
    LET quiz_data == ss[SS_QUIZ_DATA]
        shown == {Notice("Quiz Completed!", Len(ss[SS_FLASHCARDS])),
                  Notice("Correct Answers", quiz_data[QK_CORRECT_COUNT]),
                  Notice("Incorrect Answers", quiz_data[QK_INCORRECT_COUNT])}
    IN  IF click = "restart results"
        THEN {Outcome(start_quiz(ss, ss[SS_FLASHCARDS]), file, shown, TRUE, {}, TRUE)}
        ELSE IF RESULTS_RECORDED \notin DOMAIN quiz_data
        THEN
            LET flagged == Put(ss, SS_QUIZ_DATA, Put(quiz_data, RESULTS_RECORDED, TRUE))
            IN  { LET rec == record_quiz_attempt(ss, file, r, w)
                  IN  Outcome(flagged, rec.file, shown \cup rec.notices, FALSE, {}, FALSE)
                  : r \in ReadOutcomes, w \in SaveOutcomes }
        ELSE {Outcome(ss, file, shown, FALSE, {}, FALSE)}

\* lines 562-625, a question is displayed: current_card_index is drawn
\* when there is none, then the question and its buttons are shown
show_question(ss, radios, file, click, available_indices) ==
    LET drawn(choice) ==
            IF SS_CURRENT_INDEX \notin DOMAIN ss
            THEN Put(Put(ss, SS_CURRENT_INDEX, choice), SS_QUIZ_DATA,
                     Put(Put(Put(ss[SS_QUIZ_DATA],
                         QK_CURRENT_OPTIONS_DISPLAY, None),
                         QK_USER_SELECTED_OPTION, None),
                         QK_LAST_ANSWER_CORRECT, None))
            ELSE ss
        choices == IF SS_CURRENT_INDEX \notin DOMAIN ss THEN available_indices ELSE {0}
        shown_for(s) ==
            LET current_card_index == s[SS_CURRENT_INDEX]
                current_card == s[SS_FLASHCARDS][current_card_index + 1]
                radio_value == IF current_card_index \in DOMAIN radios
                               THEN radios[current_card_index] ELSE None
                dq == display_question(s, current_card, radio_value)
                s3 == Put(dq.ss, SS_QUIZ_DATA,
                          Put(dq.ss[SS_QUIZ_DATA], QK_USER_SELECTED_OPTION, dq.selected))
                quiz_data == s3[SS_QUIZ_DATA]
                rendered == {current_card_index}
                asked == {Notice("Question", current_card_index)}
                progress == {Notice("Remaining Questions", Cardinality(available_indices))}
            IN  IF quiz_data[QK_SUBMITTED] \/ quiz_data[QK_SHOW_ANSWER_CLICKED]
                THEN
                    LET feedback ==
                            asked
                            \cup (IF quiz_data[QK_LAST_ANSWER_CORRECT] = Some(TRUE)
                                  THEN {Notice("Correct!", 0)} ELSE {})
                            \cup (IF quiz_data[QK_LAST_ANSWER_CORRECT] = Some(FALSE)
                                  THEN {Notice("Incorrect.", 0)} ELSE {})
                            \cup (IF quiz_data[QK_SHOW_ANSWER]
                                  THEN {Notice("Correct Answer", current_card_index)}
                                  ELSE {})
                    IN  IF click = "next"
                        THEN Outcome(handle_next_question(s3), file, feedback,
                                     TRUE, rendered, TRUE)
                        ELSE Outcome(s3, file, feedback \cup progress,
                                     FALSE, rendered, FALSE)
                ELSE IF click = "submit" /\ dq.selected # None
                THEN Outcome(handle_submit(s3, current_card_index), file, asked,
                             TRUE, rendered, TRUE)
                ELSE IF click = "show answer"
                THEN Outcome(handle_show_answer(s3, current_card_index), file,
                             asked \cup {Notice("Correct Answer", current_card_index)},
                             TRUE, rendered, TRUE)
                ELSE Outcome(s3, file, asked \cup progress, FALSE, rendered, FALSE)
    IN  { shown_for(drawn(choice)) : choice \in choices }

\* lines 512-629
quiz_section(ss, radios, file, click) ==
    IF SS_FLASHCARDS \notin DOMAIN ss
    THEN {Outcome(ss, file, {Notice("Please upload a quiz file", 0)}, FALSE, {}, FALSE)}
    ELSE
        LET s1 == IF SS_QUIZ_DATA \notin DOMAIN ss
                  THEN Put(ss, SS_QUIZ_DATA,
                           Put(_get_default_quiz_state, QK_STARTED, FALSE))
                  ELSE ss
            flashcards == s1[SS_FLASHCARDS]
            quiz_data == s1[SS_QUIZ_DATA]
            all_indices == 0..(Len(flashcards) - 1)
            available_indices == all_indices \ quiz_data[QK_USED_QUESTIONS]
            is_finished == available_indices = {}
        IN  IF quiz_data[QK_STARTED] /\ ~is_finished /\ click = "restart sidebar"
            THEN {Outcome(start_quiz(s1, s1[SS_FLASHCARDS]), file, {}, TRUE, {}, TRUE)}
            ELSE IF ~quiz_data[QK_STARTED]
            THEN IF SS_LOADED_FILE_NAME \in DOMAIN s1
                 THEN IF click = "start"
                      THEN {Outcome(start_quiz(s1, s1[SS_FLASHCARDS]), file,
                                    {Notice("Press 'Start Quiz' to begin.", 0)},
                                    TRUE, {}, TRUE)}
                      ELSE {Outcome(s1, file, {Notice("Press 'Start Quiz' to begin.", 0)},
                                    FALSE, {}, FALSE)}
                 ELSE {Outcome(s1, file, {Notice("Please upload a quiz file", 0)},
                               FALSE, {}, FALSE)}
            ELSE IF available_indices = {}
            THEN completion(s1, file, click)
            ELSE show_question(s1, radios, file, click, available_indices)

\* display_all_quiz_results, lines 387-401: what it shows
display_all_quiz_results(file) ==
    { LET loaded == load_quiz_results(file, r)
      IN  loaded.notices \cup
          (IF loaded.results # <<>>
           THEN {Notice("All Past Quiz Results", Len(loaded.results))}
           ELSE {Notice("No past quiz results found.", 0)})
      : r \in ReadOutcomes }

\* main, lines 405-635: the set of outcomes of one execution
main(ss, user_name, uploaded, radios, file, click) ==
    LET fs == file_section(user_section(ss, user_name), uploaded)
    IN  IF fs.rerun
        THEN {Outcome(fs.ss, file, fs.notices, TRUE, {}, FALSE)}
        ELSE UNION {
            IF qs.rerun \/ click # "history"
            THEN {[qs EXCEPT !.notices = fs.notices \cup @]}
            ELSE {[qs EXCEPT !.notices = fs.notices \cup @ \cup past, !.clicked = TRUE]
                  : past \in display_all_quiz_results(qs.file)}
            : qs \in quiz_section(fs.ss, radios, file, click) }

---------------------------------------------------------------------------
(* The inputs of the model.                                                *)

UserNames == {"u", "Unknown"}

\* the options of the radio the user clicks in the model: option A, which is
\* the right answer to RowA and a wrong answer to RowC
ClickedPositions == {0}

Row(question, letter) == <<question, <<"w">>, <<"x">>, <<"y">>, <<"z">>, letter>>

File(name, rows) == [name |-> name, parses |-> TRUE, ncols |-> 6, rows |-> rows]

FCsv == <<"f", ".", "c", "s", "v">>
GCsv == <<"g", ".", "c", "s", "v">>
FXlsx == <<"f", ".", "x", "l", "s", "x">>
FTxt == <<"f", ".", "t", "x", "t">>

RowA == Row(<<"Q", ";", " ", "1">>, <<"A">>)
RowC == Row(<<"Q", "2">>, <<"'", "C", "'">>)
RowE == Row(<<"Q", "3">>, <<"E">>)

\* the files uploaded in the session specification
QuizFiles ==
    { File(FCsv, <<RowA, RowC>>),      \* Scenario A
      File(FCsv, <<RowE>>),            \* Scenario B
      File(GCsv, <<RowE, RowA>>) }     \* a skipped row before a kept one

\* the files uploaded in the loader specification
LoadQuestions == { <<"Q">>, <<" ">> }
LoadLetters ==
    { <<"A">>, <<"'", "C", "'">>, <<"\"", "b", "\"">>, <<" ", "d", "\t">>,
      <<"E">>, <<"\"", "\"", "B", "\"", "\"">>,
      <<"B">>, <<"\"", "B", "\"">>, <<"'", "B", "'">>, <<" ", "'", "b", "'", "\t">> }
LoadRows == { Row(q, l) : q \in LoadQuestions, l \in LoadLetters }
Tables == UNION { [1..n -> LoadRows] : n \in 1..MaxRows }
LoadFiles ==
    { File(FCsv, t) : t \in Tables }
    \cup { File(FXlsx, <<RowA>>), File(FTxt, <<RowA>>), File(FCsv, <<>>),
           [File(FCsv, <<RowA>>) EXCEPT !.parses = FALSE],
           File(FTxt, <<>>),
           [File(FTxt, <<RowA>>) EXCEPT !.parses = FALSE],
           [name |-> FCsv, parses |-> TRUE, ncols |-> 5, rows |-> <<>>],
           [name |-> FCsv, parses |-> TRUE, ncols |-> 5,
            rows |-> << <<<<"Q">>, <<"w">>, <<"x">>, <<"y">>, <<"A">>>> >>] }

\* a record left in the results file by an earlier session
OldRecord ==
    [k \in {"User", "Correct Count", "Incorrect Count",
            "Total Questions", "Incorrect Details"} |->
        CASE k = "User" -> "old"
          [] k = "Correct Count" -> 1
          [] k = "Incorrect Count" -> 0
          [] k = "Total Questions" -> 1
          [] k = "Incorrect Details" -> <<>>]

InitialResultsFiles ==
    { [exists |-> FALSE, rows |-> <<>>], [exists |-> TRUE, rows |-> <<OldRecord>>] }

EmptyDict == [k \in {} |-> None]

---------------------------------------------------------------------------
(* The state machine.                                                      *)

\* the radio widgets' state after an execution that rendered the radios of
\* `rendered`: the widgets not rendered are forgotten
widgets_after(radios, rendered) ==
    [k \in rendered |-> IF k \in DOMAIN radios THEN radios[k] ELSE None]

\* ... unless the execution ended by st.rerun() before rendering them: the
\* toolkit then forgets or keeps them, depending on its version
widgets_kept(radios, rendered) ==
    [k \in DOMAIN radios \cup rendered |-> IF k \in DOMAIN radios THEN radios[k] ELSE None]

\* one execution of main
Execute(user_name, uploaded, radios, click) ==
    \E out \in main(session_state, user_name, uploaded, radios, results_file, click) :
        /\ click # "none" => out.clicked
        /\ session_state' = out.ss
        /\ results_file' = out.file
        /\ notices' = out.notices
        /\ rerun' = out.rerun
        /\ uploaded_file' = uploaded
        /\ widget_state' \in
              {widgets_after(radios, out.rendered)} \cup
              (IF out.rerun THEN {widgets_kept(radios, out.rendered)} ELSE {})

Init ==
    /\ session_state = EmptyDict
    /\ uploaded_file = None
    /\ widget_state = EmptyDict
    /\ results_file \in InitialResultsFiles
    /\ notices = {}
    /\ rerun = TRUE                     \* the first execution is pending

\* the execution scheduled by st.rerun(), or the first one
Rerun == rerun /\ Execute("", uploaded_file, widget_state, "none")

SetUserName(name) == ~rerun /\ Execute(name, uploaded_file, widget_state, "none")

UploadFile(file) ==
    /\ ~rerun
    /\ uploaded_file # Some(file)
    /\ Execute("", Some(file), widget_state, "none")

RemoveFile ==
    /\ ~rerun
    /\ uploaded_file # None
    /\ Execute("", None, widget_state, "none")

CanStart == Len(results_file.rows) < MaxStore

StartQuiz == ~rerun /\ CanStart /\ Execute("", uploaded_file, widget_state, "start")

RestartQuizNow ==
    ~rerun /\ CanStart /\ Execute("", uploaded_file, widget_state, "restart sidebar")

RestartQuiz ==
    ~rerun /\ CanStart /\ Execute("", uploaded_file, widget_state, "restart results")

SelectOption(position) ==
    /\ ~rerun
    /\ \E k \in DOMAIN widget_state :
          /\ widget_state[k] # Some(position)
          /\ Execute("", uploaded_file, Put(widget_state, k, Some(position)), "none")

SubmitAnswer == ~rerun /\ Execute("", uploaded_file, widget_state, "submit")

ShowAnswer == ~rerun /\ Execute("", uploaded_file, widget_state, "show answer")

NextQuestion == ~rerun /\ Execute("", uploaded_file, widget_state, "next")

ShowAllPastResults == ~rerun /\ Execute("", uploaded_file, widget_state, "history")

Next ==
    \/ Rerun
    \/ \E name \in UserNames \cup {""} : SetUserName(name)
    \/ \E file \in QuizFiles : UploadFile(file)
    \/ RemoveFile
    \/ StartQuiz
    \/ RestartQuizNow
    \/ RestartQuiz
    \/ \E position \in ClickedPositions : SelectOption(position)
    \/ SubmitAnswer
    \/ ShowAnswer
    \/ NextQuestion
    \/ ShowAllPastResults

Spec == Init /\ [][Next]_vars

\* the loader alone: files are uploaded into an empty uploader and removed
UploadNewFile(file) == uploaded_file = None /\ UploadFile(file)

LoadNext ==
    \/ Rerun
    \/ \E file \in LoadFiles : UploadNewFile(file)
    \/ RemoveFile

LoadSpec == Init /\ [][LoadNext]_vars

---------------------------------------------------------------------------
(* Views of the state used by the properties.                              *)

HasQuiz == SS_QUIZ_DATA \in DOMAIN session_state /\ SS_FLASHCARDS \in DOMAIN session_state
Quiz == session_state[SS_QUIZ_DATA]
Bank == session_state[SS_FLASHCARDS]
HasCurrent == SS_CURRENT_INDEX \in DOMAIN session_state
CurrentCard == Bank[session_state[SS_CURRENT_INDEX] + 1]
Available == (0..(Len(Bank) - 1)) \ Quiz[QK_USED_QUESTIONS]
Started == HasQuiz /\ Quiz[QK_STARTED]
\* the completed quiz is on the screen
Finished == Started /\ Notice("Quiz Completed!", Len(Bank)) \in notices
Resolutions == Quiz[QK_CORRECT_COUNT] + Quiz[QK_INCORRECT_COUNT]
Tallies ==
    <<Quiz[QK_CORRECT_COUNT], Quiz[QK_INCORRECT_COUNT],
      Quiz[QK_CORRECT_QUESTIONS], Quiz[QK_INCORRECT_QUESTIONS]>>
BankIndices == { Bank[i].original_index : i \in 1..Len(Bank) }

---------------------------------------------------------------------------
(* Properties.                                                             *)

\* C1: in every reachable state of a session, correct_count + incorrect_count
\* equals the number of elements of used_questions.
C1_CountsEqualUsed ==
    HasQuiz => Resolutions = Cardinality(Quiz[QK_USED_QUESTIONS])

\* C1 witness: a session with one right and one wrong answer counted.
C1_Witness ==
    /\ HasQuiz
    /\ Quiz[QK_CORRECT_COUNT] = 1
    /\ Quiz[QK_INCORRECT_COUNT] = 1
    /\ Cardinality(Quiz[QK_USED_QUESTIONS]) = 2

\* C2: the question an execution makes current (the current index was absent
\* and is now present) does not have its original_index in used_questions;
\* and whenever no index is available in a started session, the completed
\* quiz is shown and no question is.
C2_SelectNextNeverUsed ==
    /\ [][ (HasQuiz' /\ ~HasCurrent /\ HasCurrent')
            => CurrentCard'.original_index \notin Quiz'[QK_USED_QUESTIONS] ]_vars
    /\ [](( ~rerun /\ Started /\ Available = {} )
            => ( Finished /\ \A i \in 0..(Len(Bank) - 1) : Notice("Question", i) \notin notices ))

\* C3: once a started session has had as many resolutions as the bank has
\* questions and the script has run again, either the quiz is Finished or the
\* question just resolved is still shown, waiting to be advanced: no
\* unanswered question is shown any more.
C3_FinishedAfterAllResolved ==
    ( ~rerun /\ Started /\ Resolutions = Len(Bank) )
        => ( Finished \/ Quiz[QK_SUBMITTED] \/ Quiz[QK_SHOW_ANSWER_CLICKED] )

\* C4: while the current question's original_index is in used_questions,
\* no step of the same attempt changes the counts or the logs; and a step
\* that adds an index to used_questions adds exactly one and changes the
\* counts and the logs by exactly one resolution.
C4_NoDoubleCount ==
    /\ [][ ( /\ HasQuiz /\ HasCurrent /\ HasQuiz'
             /\ CurrentCard.original_index \in Quiz[QK_USED_QUESTIONS]
             /\ CurrentCard.original_index \in Quiz'[QK_USED_QUESTIONS] )
            => ( Tallies' = Tallies
                 /\ Quiz'[QK_USED_QUESTIONS] = Quiz[QK_USED_QUESTIONS] ) ]_vars
    /\ [][ ( /\ HasQuiz /\ HasQuiz'
             /\ Quiz'[QK_USED_QUESTIONS] # Quiz[QK_USED_QUESTIONS]
             /\ Quiz'[QK_USED_QUESTIONS] # {} )
            => ( /\ HasCurrent
                 /\ Quiz'[QK_USED_QUESTIONS] =
                        Quiz[QK_USED_QUESTIONS] \cup {CurrentCard.original_index}
                 /\ CurrentCard.original_index \notin Quiz[QK_USED_QUESTIONS]
                 /\ Resolutions' = Resolutions + 1
                 /\ Len(Quiz'[QK_CORRECT_QUESTIONS]) + Len(Quiz'[QK_INCORRECT_QUESTIONS])
                      = Len(Quiz[QK_CORRECT_QUESTIONS])
                          + Len(Quiz[QK_INCORRECT_QUESTIONS]) + 1 ) ]_vars

\* C4 witness: a question that was revealed (counted wrong) came up again and
\* was then submitted with the right answer: the second resolution changed
\* the outcome shown but no count.
C4_Witness ==
    /\ HasQuiz
    /\ Quiz[QK_SUBMITTED]
    /\ Quiz[QK_LAST_ANSWER_CORRECT] = Some(TRUE)
    /\ Quiz[QK_CORRECT_COUNT] = 0
    /\ Quiz[QK_INCORRECT_COUNT] = 1

\* C5: immediately after start_quiz, from any session state, used_questions
\* is empty, both counts are 0, both logs are empty, no current question is
\* selected, the phase flags are false, the selection and the last outcome
\* are unset, the recorded flag is absent and the bank is unchanged.
C5_RestartResets ==
    [][ (StartQuiz \/ RestartQuizNow \/ RestartQuiz)
        => ( /\ HasQuiz'
             /\ Quiz'[QK_STARTED]
             /\ Quiz'[QK_USED_QUESTIONS] = {}
             /\ Quiz'[QK_CORRECT_COUNT] = 0
             /\ Quiz'[QK_INCORRECT_COUNT] = 0
             /\ Quiz'[QK_CORRECT_QUESTIONS] = <<>>
             /\ Quiz'[QK_INCORRECT_QUESTIONS] = <<>>
             /\ ~HasCurrent'
             /\ ~Quiz'[QK_SUBMITTED]
             /\ ~Quiz'[QK_SHOW_ANSWER]
             /\ ~Quiz'[QK_SHOW_ANSWER_CLICKED]
             /\ Quiz'[QK_USER_SELECTED_OPTION] = None
             /\ Quiz'[QK_LAST_ANSWER_CORRECT] = None
             /\ RESULTS_RECORDED \notin DOMAIN Quiz'
             /\ Bank' = Bank ) ]_vars

\* C5 witness: the state left by a restart after a completed, recorded attempt.
C5_Witness ==
    /\ rerun
    /\ Started
    /\ ~HasCurrent
    /\ Quiz[QK_USED_QUESTIONS] = {}
    /\ \E i \in 1..Len(results_file.rows) : results_file.rows[i]["User"] = "u"

\* the first execution that shows the completed quiz: the session reaches Finished
FinishStep ==
    /\ HasQuiz /\ HasQuiz'
    /\ RESULTS_RECORDED \notin DOMAIN Quiz
    /\ RESULTS_RECORDED \in DOMAIN Quiz'

SaveFailed == Notice("Error saving results file", 0) \in notices

\* C6: while the recorded flag is on the session no step changes the results
\* file, however often the completed quiz is shown again; and a step changes
\* the results file only when it sets the flag on a session without it.
C6_AtMostOneAppend ==
    /\ [][ (HasQuiz /\ RESULTS_RECORDED \in DOMAIN Quiz)
            => results_file' = results_file ]_vars
    /\ [][ results_file' # results_file => FinishStep ]_vars

\* C6 witness: the completed quiz, recorded for user u, is shown again after
\* the name was changed, and the last record is still the one of u.
C6_Witness ==
    /\ ~rerun
    /\ Finished
    /\ RESULTS_RECORDED \in DOMAIN Quiz
    /\ session_state[SS_USER] = "Unknown"
    /\ results_file.rows # <<>>
    /\ results_file.rows[Len(results_file.rows)]["User"] = "u"

\* the places in s where the separator "; " begins
C7_Cuts(s) == { i \in 1..(Len(s) - 1) : s[i] = ";" /\ s[i + 1] = " " }

\* the "; "-separated segments of a details string ("" has none)
C7_Segments(s) ==
    IF s = <<>> THEN <<>>
    ELSE LET cuts == C7_Cuts(s)
             n == Cardinality(cuts) + 1
             cut(k) == CHOOSE i \in cuts : Cardinality({j \in cuts : j < i}) = k - 1
         IN  [k \in 1..n |->
                SubSeq(s, IF k = 1 THEN 1 ELSE cut(k - 1) + 2,
                          IF k = n THEN Len(s) ELSE cut(k) - 1)]

\* the text of one incorrect_log entry in Incorrect Details
C7_Entry(item) ==
    <<"Q", ":", " ">> \o item["Question"] \o <<" ", "|", " ", "A", ":", " ">>
        \o item["Correct Answer"] \o <<" ", "|", " ", "Y", "o", "u", "r", ":", " ">>
        \o item["Your Answer"]

C7_Entries(log) == [i \in 1..Len(log) |-> C7_Entry(log[i])]

RECURSIVE C7_Joined(_)
C7_Joined(entries) ==
    IF Len(entries) = 0 THEN <<>>
    ELSE IF Len(entries) = 1 THEN entries[1]
    ELSE C7_Joined(SubSeq(entries, 1, Len(entries) - 1))
            \o <<";", " ">> \o entries[Len(entries)]

\* the last record of the file has the counts of the session and the size of the bank
C7_LastRecordCounts(rows, quiz, bank) ==
    /\ rows # <<>>
    /\ rows[Len(rows)]["Correct Count"] = quiz[QK_CORRECT_COUNT]
    /\ rows[Len(rows)]["Incorrect Count"] = quiz[QK_INCORRECT_COUNT]
    /\ rows[Len(rows)]["Total Questions"] = Len(bank)

C8_AppendOnly ==
    [][ (results_file'.rows # results_file.rows /\ ~SaveFailed')
        => ( /\ Len(results_file'.rows) = Len(results_file.rows) + 1
             /\ SubSeq(results_file'.rows, 1, Len(results_file.rows))
                  = results_file.rows ) ]_vars

\* C9: when a session reaches Finished with no user identifier set, the
\* results file is unchanged, the counts and logs are unchanged and the
\* completed quiz is shown; and when a user identifier is set later, while
\* the session is still Finished, nothing is appended either.
C9_NoUserNoRecord ==
    /\ [][ (FinishStep /\ session_state'[SS_USER] = "")
            => ( /\ results_file' = results_file
                 /\ Tallies' = Tallies
                 /\ Finished' ) ]_vars
    /\ [][ ( /\ HasQuiz /\ RESULTS_RECORDED \in DOMAIN Quiz
             /\ SS_USER \in DOMAIN session_state /\ session_state[SS_USER] = ""
             /\ session_state'[SS_USER] # "" )
            => ( /\ results_file' = results_file
                 /\ HasQuiz' /\ Tallies' = Tallies
                 /\ Finished' ) ]_vars

\* C9 witness: a session Finished with no user identifier, flagged as
\* recorded, with no record of it in the results file.
C9_Witness ==
    /\ ~rerun
    /\ Finished
    /\ RESULTS_RECORDED \in DOMAIN Quiz
    /\ session_state[SS_USER] = ""
    /\ Quiz[QK_INCORRECT_COUNT] = 1
    /\ results_file \in InitialResultsFiles

\* the 0-based numbers of the data rows the loader is to keep
C10_Kept(rows) ==
    { i \in 0..(Len(rows) - 1) :
        /\ correct_letter_of(rows[i + 1][6]) \in {A, B, C, D}
        /\ strip(rows[i + 1][1]) # <<>> }

C10_BankOf(bank, rows) ==
    /\ Len(bank) = Cardinality(C10_Kept(rows))
    /\ \A j \in 1..Len(bank) :
          LET q == bank[j]
              row == rows[q.original_index + 1]
          IN  /\ q.original_index \in C10_Kept(rows)
              /\ j < Len(bank) => q.original_index < bank[j + 1].original_index
              /\ q.question = row[1]
              /\ q.options = [k \in {A, B, C, D} |->
                                row[CHOOSE n \in 2..5 : <<A, B, C, D>>[n - 1] = k]]
              /\ q.correct_option_letter = correct_letter_of(row[6])
              /\ q.correct_answer_text = q.options[q.correct_option_letter]

\* an execution that calls the loader on the uploaded file
C10_Loads ==
    /\ uploaded_file' # None
    /\ \/ SS_FLASHCARDS \notin DOMAIN session_state
       \/ session_state[SS_LOADED_FILE_NAME] # uploaded_file'[1].name

C10_Readable(file) ==
    /\ file.parses /\ file.ncols >= 6 /\ file.rows # <<>>
    /\ endswith(file.name, DotCsv) \/ endswith(file.name, DotXlsx)
          \/ endswith(file.name, DotXls)

\* C10: the bank the loader returns is the subsequence, in row order, of the
\* data rows with a normalized correct letter in {A,B,C,D} and a non-blank
\* question; each question has the 0-based number of its row as
\* original_index and the normalized letter as correct letter; the other
\* rows are skipped, and the load succeeds when a row is kept.
C10_BankIsKeptRows ==
    [][ C10_Loads
        => ( /\ SS_FLASHCARDS \in DOMAIN session_state'
                  => C10_BankOf(session_state'[SS_FLASHCARDS], uploaded_file'[1].rows)
             /\ ( C10_Readable(uploaded_file'[1])
                  /\ C10_Kept(uploaded_file'[1].rows) # {} )
                  => SS_FLASHCARDS \in DOMAIN session_state' ) ]_vars

\* C10 witness: a 2-row file whose first row is skipped and whose second row,
\* with the letter field 'C', is kept as question 1 with letter C.
C10_Witness ==
    /\ rerun
    /\ uploaded_file # None
    /\ SS_FLASHCARDS \in DOMAIN session_state
    /\ Len(uploaded_file[1].rows) = 2
    /\ uploaded_file[1].rows[2][6] = <<"'", "C", "'">>
    /\ Len(Bank) = 1
    /\ Bank[1].original_index = 1
    /\ Bank[1].correct_option_letter = C

UnsupportedFormat == Notice("Unsupported file format.", 0)
ReadError == Notice("An error occurred while reading the file", 0)
EmptyFile == Notice("The file is empty.", 0)
TooFewColumns(file) == Notice("Uploaded file must contain at least 6 columns.", file.ncols)
NoValidQuestions == Notice("No valid questions found in the uploaded file.", 0)

C11_Supported(file) ==
    endswith(file.name, DotCsv) \/ endswith(file.name, DotXlsx)
        \/ endswith(file.name, DotXls)

\* the failure the claim gives for a file: the first of the four cases that
\* applies, None when none does
C11_ClaimedFailure(file) ==
    IF ~C11_Supported(file) THEN UnsupportedFormat
    ELSE IF file.rows = <<>> THEN EmptyFile
    ELSE IF file.ncols < 6 THEN TooFewColumns(file)
    ELSE IF C10_Kept(file.rows) = {} THEN NoValidQuestions
    ELSE None

\* the same with the failure to read the file, after the test of the extension
C11_Failure(file) ==
    IF ~C11_Supported(file) THEN UnsupportedFormat
    ELSE IF ~file.parses THEN ReadError
    ELSE IF file.rows = <<>> THEN EmptyFile
    ELSE IF file.ncols < 6 THEN TooFewColumns(file)
    ELSE IF C10_Kept(file.rows) = {} THEN NoValidQuestions
    ELSE None

C11_Failures(file) ==
    {UnsupportedFormat, ReadError, EmptyFile, TooFewColumns(file), NoValidQuestions}

\* an execution that loaded the file fails as `failure` says
C11_FailsAs(failure) ==
    /\ SS_FLASHCARDS \notin DOMAIN session_state' <=> failure # None
    /\ failure # None => notices' \cap C11_Failures(uploaded_file'[1]) = {failure}
    /\ failure = None => notices' \cap C11_Failures(uploaded_file'[1]) = {}
    /\ SS_FLASHCARDS \in DOMAIN session_state' => session_state'[SS_FLASHCARDS] # <<>>

\* C11 as stated: the loader returns no bank in exactly four cases, tested
\* in this order: unrecognized extension, zero data rows, fewer than 6
\* columns, no row surviving validation; a returned bank is never empty.
C11_FailsInFourCases ==
    [][ C10_Loads => C11_FailsAs(C11_ClaimedFailure(uploaded_file'[1])) ]_vars

\* C11 amended: the loader returns no bank in exactly five cases, tested in
\* this order: unrecognized extension, the file cannot be read, zero data
\* rows, fewer than 6 columns, no row surviving validation; a returned bank
\* is never empty.
C11_FailsInFiveCases ==
    [][ C10_Loads => C11_FailsAs(C11_Failure(uploaded_file'[1])) ]_vars

\* C11 witness: the 1-row file whose only row has the letter E was rejected
\* for having no valid question.
C11_Witness ==
    /\ ~rerun
    /\ uploaded_file # None
    /\ uploaded_file[1].rows = << Row(<<"Q">>, <<"E">>) >>
    /\ SS_FLASHCARDS \notin DOMAIN session_state
    /\ NoValidQuestions \in notices
    /\ Notice("Invalid correct answer letter. Skipping question.", 2) \in notices

C12_Spaces == { <<>>, <<" ">>, <<"\t">> }
C12_Wrappings == { <<>>, <<"\"">>, <<"'">> }
C12_Cases(letter) ==
    { letter,
      CASE letter = A -> <<"a">> [] letter = B -> <<"b">>
        [] letter = C -> <<"c">> [] letter = D -> <<"d">> }

\* the ways of writing a letter: bare or wrapped in quotes of one kind, in
\* either case, with whitespace around
C12_Forms(letter) ==
    { before \o quote \o text \o quote \o after :
        before \in C12_Spaces, after \in C12_Spaces,
        quote \in C12_Wrappings, text \in C12_Cases(letter) }

\* C12: when a file is loaded, every row with a non-blank question whose
\* letter field is a way of writing a letter of {A,B,C,D} becomes a question
\* with that letter as correct letter, and normalizing that letter again
\* gives the same letter.
C12_LetterNormalization ==
    [][ (C10_Loads /\ C10_Readable(uploaded_file'[1]))
        => \A i \in 1..Len(uploaded_file'[1].rows) : \A letter \in {A, B, C, D} :
            ( /\ uploaded_file'[1].rows[i][6] \in C12_Forms(letter)
              /\ strip(uploaded_file'[1].rows[i][1]) # <<>> )
            => ( /\ SS_FLASHCARDS \in DOMAIN session_state'
                 /\ \E j \in 1..Len(Bank') :
                      /\ Bank'[j].original_index = i - 1
                      /\ Bank'[j].correct_option_letter = letter
                      /\ correct_letter_of(Bank'[j].correct_option_letter) = letter ) ]_vars

\* C12 witness: a file with the letter written "B" in one row and, with
\* whitespace around, 'b' in the other was loaded as two questions with
\* the letter B.
C12_Witness ==
    /\ uploaded_file # None
    /\ SS_FLASHCARDS \in DOMAIN session_state
    /\ Len(uploaded_file[1].rows) = 2
    /\ uploaded_file[1].rows[1][6] = <<"\"", "B", "\"">>
    /\ uploaded_file[1].rows[2][6] = <<" ", "'", "b", "'", "\t">>
    /\ Len(Bank) = 2
    /\ Bank[1].correct_option_letter = B
    /\ Bank[2].correct_option_letter = B

\* the phase of the current question, as line 588 tests it
Unanswered == ~Quiz[QK_SUBMITTED] /\ ~Quiz[QK_SHOW_ANSWER_CLICKED]

\* a question is shown unanswered and has not been counted
Unresolved ==
    /\ HasQuiz /\ HasCurrent /\ Unanswered
    /\ CurrentCard.original_index \notin Quiz[QK_USED_QUESTIONS]

\* the last entry of the incorrect log of the next state is new and is about
\* the current question, with `yours` as the user's answer
C13_IncorrectLogged(yours) ==
    /\ Quiz'[QK_INCORRECT_COUNT] = Quiz[QK_INCORRECT_COUNT] + 1
    /\ Quiz'[QK_INCORRECT_QUESTIONS] =
          Append(Quiz[QK_INCORRECT_QUESTIONS],
                 [k \in {"Question", "Correct Answer", "Your Answer"} |->
                    CASE k = "Question" -> CurrentCard.question
                      [] k = "Correct Answer" ->
                            CurrentCard.options[CurrentCard.correct_option_letter]
                      [] k = "Your Answer" -> yours])
    /\ Quiz'[QK_CORRECT_COUNT] = Quiz[QK_CORRECT_COUNT]
    /\ Quiz'[QK_CORRECT_QUESTIONS] = Quiz[QK_CORRECT_QUESTIONS]

\* C13: Submit Answer on an unanswered question not yet counted, with the
\* selection s: if s is the correct letter the outcome is Correct,
\* correct_count grows by 1, one entry is appended to the correct log and
\* the incorrect side is unchanged; otherwise the outcome is Incorrect,
\* incorrect_count grows by 1, one entry with the text of option s is
\* appended to the incorrect log and the correct side is unchanged; in both
\* cases the question's original_index is added to used_questions and
\* submitted and show_answer are true.
C13_Submit ==
    [][ (SubmitAnswer /\ Unresolved)
        => ( /\ HasQuiz' /\ Bank' = Bank
             /\ Quiz[QK_USER_SELECTED_OPTION] \in {A, B, C, D}
             /\ IF Quiz[QK_USER_SELECTED_OPTION] = CurrentCard.correct_option_letter
                THEN /\ Quiz'[QK_LAST_ANSWER_CORRECT] = Some(TRUE)
                     /\ Quiz'[QK_CORRECT_COUNT] = Quiz[QK_CORRECT_COUNT] + 1
                     /\ Quiz'[QK_CORRECT_QUESTIONS] =
                           Append(Quiz[QK_CORRECT_QUESTIONS],
                                  [k \in {"Question", "Correct Answer"} |->
                                     IF k = "Question" THEN CurrentCard.question
                                     ELSE CurrentCard.options[
                                              CurrentCard.correct_option_letter]])
                     /\ Quiz'[QK_INCORRECT_COUNT] = Quiz[QK_INCORRECT_COUNT]
                     /\ Quiz'[QK_INCORRECT_QUESTIONS] = Quiz[QK_INCORRECT_QUESTIONS]
                ELSE /\ Quiz'[QK_LAST_ANSWER_CORRECT] = Some(FALSE)
                     /\ C13_IncorrectLogged(
                            CurrentCard.options[Quiz[QK_USER_SELECTED_OPTION]])
             /\ Quiz'[QK_USED_QUESTIONS] =
                   Quiz[QK_USED_QUESTIONS] \cup {CurrentCard.original_index}
             /\ Quiz'[QK_SUBMITTED] /\ Quiz'[QK_SHOW_ANSWER] ) ]_vars

\* C13 witness: after a right answer to one question, option A was submitted
\* for the other, whose correct letter is C, and logged with its text.
C13_Witness ==
    /\ rerun
    /\ HasQuiz /\ HasCurrent
    /\ Quiz[QK_SUBMITTED] /\ ~Quiz[QK_SHOW_ANSWER_CLICKED]
    /\ Quiz[QK_LAST_ANSWER_CORRECT] = Some(FALSE)
    /\ Quiz[QK_CORRECT_COUNT] = 1
    /\ Quiz[QK_INCORRECT_COUNT] = 1
    /\ CurrentCard.correct_option_letter = C
    /\ Quiz[QK_INCORRECT_QUESTIONS][1]["Your Answer"] = <<"w">>

\* C14: Show Answer on an unanswered question not yet counted is scored
\* incorrect whatever the selection: the outcome is Incorrect,
\* incorrect_count grows by 1, the correct side is unchanged, the
\* original_index is added to used_questions, the question is resolved, and
\* the entry appended to the incorrect log has the text of the selected
\* option, or "No answer" when nothing is selected.
C14_Reveal ==
    [][ (ShowAnswer /\ Unresolved)
        => ( /\ HasQuiz' /\ Bank' = Bank
             /\ Quiz'[QK_LAST_ANSWER_CORRECT] = Some(FALSE)
             /\ C13_IncorrectLogged(
                    IF Quiz[QK_USER_SELECTED_OPTION] = None
                    THEN <<"N", "o", " ", "a", "n", "s", "w", "e", "r">>
                    ELSE CurrentCard.options[Quiz[QK_USER_SELECTED_OPTION]])
             /\ Quiz'[QK_USED_QUESTIONS] =
                   Quiz[QK_USED_QUESTIONS] \cup {CurrentCard.original_index}
             /\ Quiz'[QK_SUBMITTED] /\ Quiz'[QK_SHOW_ANSWER]
             /\ Quiz'[QK_SHOW_ANSWER_CLICKED] ) ]_vars

\* C14 witness: the answer was revealed while the right option was selected,
\* and the question was counted wrong with the text of that option.
C14_Witness ==
    /\ rerun
    /\ HasQuiz /\ HasCurrent
    /\ Quiz[QK_SHOW_ANSWER_CLICKED]
    /\ Quiz[QK_USER_SELECTED_OPTION] = CurrentCard.correct_option_letter
    /\ Quiz[QK_LAST_ANSWER_CORRECT] = Some(FALSE)
    /\ Quiz[QK_CORRECT_COUNT] = 0
    /\ Quiz[QK_INCORRECT_COUNT] = 1
    /\ Quiz[QK_INCORRECT_QUESTIONS][1]["Your Answer"] = <<"w">>
    /\ Quiz[QK_INCORRECT_QUESTIONS][1]["Correct Answer"] = <<"w">>

\* handle_submit called for the question on the screen, whatever the state of
\* the Submit Answer button: the operation itself, without the guard of the
\* surface (the button is disabled while nothing is selected, line 610)
handle_submit_called ==
    /\ ~rerun
    /\ HasQuiz /\ HasCurrent /\ Started /\ Unanswered
    /\ session_state' = handle_submit(session_state, session_state[SS_CURRENT_INDEX])
    /\ rerun' = TRUE
    /\ UNCHANGED <<uploaded_file, widget_state, results_file, notices>>

ContractNext ==
    \/ Rerun
    \/ \E file \in QuizFiles : UploadNewFile(file)
    \/ RemoveFile
    \/ StartQuiz
    \/ \E position \in ClickedPositions : SelectOption(position)
    \/ NextQuestion
    \/ handle_submit_called

\* the session with the submit operation callable at any unanswered question
ContractSpec == Init /\ [][ContractNext]_vars

\* C15: the submit operation invoked while no option is selected changes
\* neither the counts, nor the logs, nor used_questions, nor the phase flags,
\* nor the last outcome.
C15_SubmitWithoutSelectionIsNoOp ==
    [][ (handle_submit_called /\ Quiz[QK_USER_SELECTED_OPTION] = None)
        => ( /\ HasQuiz'
             /\ Tallies' = Tallies
             /\ Quiz'[QK_USED_QUESTIONS] = Quiz[QK_USED_QUESTIONS]
             /\ Quiz'[QK_SUBMITTED] = Quiz[QK_SUBMITTED]
             /\ Quiz'[QK_SHOW_ANSWER] = Quiz[QK_SHOW_ANSWER]
             /\ Quiz'[QK_SHOW_ANSWER_CLICKED] = Quiz[QK_SHOW_ANSWER_CLICKED]
             /\ Quiz'[QK_LAST_ANSWER_CORRECT] = Quiz[QK_LAST_ANSWER_CORRECT] ) ]_vars

\* C16: the execution in which the session becomes Finished and the attempt
\* is recorded starts with no current question (advance has cleared the last
\* resolved question) and selects none: a resolved question stays on the
\* screen until it is advanced.
C16_FinishedOnlyAfterAdvance ==
    [][ FinishStep => (~HasCurrent /\ ~HasCurrent') ]_vars

\* files that replace one another in the uploader: two of the same name with
\* different rows, and one of another name
ReplaceFiles ==
    { File(FCsv, <<RowA, RowC>>), File(FCsv, <<RowC>>), File(GCsv, <<RowC, RowA>>) }

FileNext ==
    \/ Rerun
    \/ \E file \in ReplaceFiles : UploadFile(file)
    \/ RemoveFile
    \/ StartQuiz
    \/ ShowAnswer
    \/ NextQuestion

\* the session of a user who replaces and removes the uploaded file
FileSpec == Init /\ [][FileNext]_vars

\* C17: an execution that finds a different file in the uploader, one that
\* loads, leaves the questions of that file as the bank and a fresh session,
\* not started, with no current question; an execution that finds the
\* uploader emptied leaves no bank and no session.
C17_NewFileReplacesBank ==
    /\ [][ ( /\ uploaded_file' # None
             /\ uploaded_file' # uploaded_file
             /\ C10_Readable(uploaded_file'[1])
             /\ C10_Kept(uploaded_file'[1].rows) # {} )
            => ( /\ HasQuiz'
                 /\ C10_BankOf(Bank', uploaded_file'[1].rows)
                 /\ ~Started'
                 /\ ~HasCurrent'
                 /\ Quiz'[QK_USED_QUESTIONS] = {}
                 /\ Tallies' = <<0, 0, <<>>, <<>>>> ) ]_vars
    /\ [][ (uploaded_file # None /\ uploaded_file' = None)
            => ( /\ SS_FLASHCARDS \notin DOMAIN session_state'
                 /\ SS_QUIZ_DATA \notin DOMAIN session_state'
                 /\ SS_CURRENT_INDEX \notin DOMAIN session_state' ) ]_vars

\* the step changes nothing of the session but the entries `keys` of the quiz
\* state and the entries `others` of session_state, and not the results file
C18_OnlyChanges(keys, others) ==
    /\ HasQuiz /\ HasQuiz'
    /\ DOMAIN Quiz' = DOMAIN Quiz
    /\ \A k \in DOMAIN Quiz \ keys : Quiz'[k] = Quiz[k]
    /\ DOMAIN session_state' \ others = DOMAIN session_state \ others
    /\ \A k \in DOMAIN session_state \ ({SS_QUIZ_DATA} \cup others) :
          session_state'[k] = session_state[k]
    /\ results_file' = results_file

\* C18: selecting an option, in any phase, changes nothing but the pending
\* selection; Next Question changes nothing but the phase flags, the pending
\* selection, the last outcome, the options on display and the current
\* index; so neither changes a count, a log or used_questions.
C18_SelectAndAdvanceFrame ==
    /\ [][ (\E position \in ClickedPositions : SelectOption(position))
            => ( /\ C18_OnlyChanges({QK_USER_SELECTED_OPTION}, {})
                 /\ Quiz'[QK_USER_SELECTED_OPTION] # Quiz[QK_USER_SELECTED_OPTION] ) ]_vars
    /\ [][ NextQuestion
            => ( /\ C18_OnlyChanges({QK_SUBMITTED, QK_SHOW_ANSWER, QK_SHOW_ANSWER_CLICKED,
                                     QK_USER_SELECTED_OPTION, QK_LAST_ANSWER_CORRECT,
                                     QK_CURRENT_OPTIONS_DISPLAY}, {SS_CURRENT_INDEX})
                 /\ ~HasCurrent' ) ]_vars

\* C18 witness: an option was selected on a question already resolved by
\* Show Answer; the question is still counted with "No answer".
C18_Witness ==
    /\ ~rerun
    /\ HasQuiz /\ HasCurrent
    /\ Quiz[QK_SHOW_ANSWER_CLICKED]
    /\ Quiz[QK_USER_SELECTED_OPTION] = A
    /\ Quiz[QK_INCORRECT_COUNT] = 1
    /\ Quiz[QK_INCORRECT_QUESTIONS][1]["Your Answer"] = NoAnswer

\* C19: the question made current by an execution that follows Next Question
\* (no current question, some question already used) is unanswered:
\* submitted, show_answer and show_answer_clicked are false, no option is
\* selected and there is no last outcome.
C19_DrawnQuestionUnanswered ==
    [][ ( /\ Started /\ ~HasCurrent /\ Quiz[QK_USED_QUESTIONS] # {}
          /\ HasQuiz' /\ HasCurrent' )
        => ( /\ ~Quiz'[QK_SUBMITTED]
             /\ ~Quiz'[QK_SHOW_ANSWER]
             /\ ~Quiz'[QK_SHOW_ANSWER_CLICKED]
             /\ Quiz'[QK_USER_SELECTED_OPTION] = None
             /\ Quiz'[QK_LAST_ANSWER_CORRECT] = None ) ]_vars

\* C20: an attempt whose save fails leaves the records of the results file
\* as they were and leaves the counts and the logs of the session unchanged.
C20_FailedSaveLeavesStore ==
    [][ (FinishStep /\ SaveFailed')
        => ( /\ results_file'.rows = results_file.rows
             /\ Tallies' = Tallies ) ]_vars

C21_QuoteCharacters == { <<"\"">>, <<"'">> }

\* the ways of writing a letter wrapped in two layers of quotes
C21_TwoLayers(letter) ==
    { outer \o inner \o text \o closing \o last :
        outer \in C21_QuoteCharacters, inner \in C21_QuoteCharacters,
        closing \in C21_QuoteCharacters, last \in C21_QuoteCharacters,
        text \in C12_Cases(letter) }

\* the rows of the file being loaded that have a non-blank question and a
\* letter of {A,B,C,D} wrapped in two layers of quotes, with their letter
C21_TwoLayerRows ==
    { <<i, letter>> \in (1..Len(uploaded_file'[1].rows)) \X {A, B, C, D} :
        /\ uploaded_file'[1].rows[i][6] \in C21_TwoLayers(letter)
        /\ strip(uploaded_file'[1].rows[i][1]) # <<>> }

\* C21 as stated: when a file is loaded, a row whose letter is wrapped in two
\* layers of quotes is skipped: no question of the bank comes from it, and
\* the warning about its letter is shown.
C21_TwoLayersSkipped ==
    [][ (C10_Loads /\ C10_Readable(uploaded_file'[1]))
        => \A r \in C21_TwoLayerRows :
            /\ SS_FLASHCARDS \in DOMAIN session_state'
                  => \A j \in 1..Len(Bank') : Bank'[j].original_index # r[1] - 1
            /\ Notice("Invalid correct answer letter. Skipping question.", r[1] + 1)
                  \in notices' ]_vars

\* C21 amended: when a file is loaded, a row with a non-blank question whose
\* letter is wrapped in two layers of quotes is kept: all the quote
\* characters at both ends are removed, and the row becomes a question with
\* that letter as correct letter.
C21_TwoLayersKept ==
    [][ (C10_Loads /\ C10_Readable(uploaded_file'[1]))
        => \A r \in C21_TwoLayerRows :
            /\ SS_FLASHCARDS \in DOMAIN session_state'
            /\ \E j \in 1..Len(Bank') :
                  /\ Bank'[j].original_index = r[1] - 1
                  /\ Bank'[j].correct_option_letter = r[2]
            /\ Notice("Invalid correct answer letter. Skipping question.", r[1] + 1)
                  \notin notices' ]_vars

\* C21 witness: the 1-row file with the letter written ""B"" was loaded as
\* one question with the letter B.
C21_Witness ==
    /\ uploaded_file # None
    /\ uploaded_file[1].rows = << Row(<<"Q">>, <<"\"", "\"", "B", "\"", "\"">>) >>
    /\ SS_FLASHCARDS \in DOMAIN session_state
    /\ Len(Bank) = 1
    /\ Bank[1].correct_option_letter = B

\* the current question has an entry in the log
C22_Logged(log) ==
    \E i \in 1..Len(log) : log[i]["Question"] = CurrentCard.question

\* C22: in every reachable state with a current question, the last outcome
\* is Correct only if the question has an entry in the correct log and none
\* in the incorrect log, and Incorrect only if it has an entry in the
\* incorrect log and none in the correct log.
C22_OutcomeAgreesWithLogs ==
    (HasQuiz /\ HasCurrent)
        => ( /\ Quiz[QK_LAST_ANSWER_CORRECT] = Some(TRUE)
                  => ( /\ C22_Logged(Quiz[QK_CORRECT_QUESTIONS])
                       /\ ~C22_Logged(Quiz[QK_INCORRECT_QUESTIONS]) )
             /\ Quiz[QK_LAST_ANSWER_CORRECT] = Some(FALSE)
                  => ( /\ C22_Logged(Quiz[QK_INCORRECT_QUESTIONS])
                       /\ ~C22_Logged(Quiz[QK_CORRECT_QUESTIONS]) ) )

\* C23: every record of the results file has Correct Count + Incorrect Count
\* = Total Questions.
C23_RecordCountsAddUp ==
    \A i \in 1..Len(results_file.rows) :
        results_file.rows[i]["Correct Count"] + results_file.rows[i]["Incorrect Count"]
            = results_file.rows[i]["Total Questions"]

\* C23 witness: the results file holds the record of an attempt of user u at
\* a 2-question bank, both questions counted incorrect.
C23_Witness ==
    \E i \in 1..Len(results_file.rows) :
        /\ results_file.rows[i]["User"] = "u"
        /\ results_file.rows[i]["Incorrect Count"] = 2
        /\ results_file.rows[i]["Total Questions"] = 2

\* the step stays within one attempt: it neither starts the quiz nor finds
\* another file in the uploader
C24_SameAttempt ==
    /\ HasQuiz /\ HasQuiz'
    /\ ~(StartQuiz \/ RestartQuizNow \/ RestartQuiz)
    /\ uploaded_file' = uploaded_file

C24_Extends(log, longer) ==
    /\ Len(longer) >= Len(log)
    /\ SubSeq(longer, 1, Len(log)) = log

\* C24: in every reachable state the correct log is as long as
\* correct_count and the incorrect log as long as incorrect_count; within
\* one attempt no step decreases a count or removes an element of
\* used_questions, and the logs change only by entries added at their end.
C24_LogsMirrorCounts ==
    /\ [](HasQuiz => ( /\ Len(Quiz[QK_CORRECT_QUESTIONS]) = Quiz[QK_CORRECT_COUNT]
                       /\ Len(Quiz[QK_INCORRECT_QUESTIONS]) = Quiz[QK_INCORRECT_COUNT] ))
    /\ [][ C24_SameAttempt
            => ( /\ Quiz'[QK_CORRECT_COUNT] >= Quiz[QK_CORRECT_COUNT]
                 /\ Quiz'[QK_INCORRECT_COUNT] >= Quiz[QK_INCORRECT_COUNT]
                 /\ Quiz[QK_USED_QUESTIONS] \subseteq Quiz'[QK_USED_QUESTIONS]
                 /\ C24_Extends(Quiz[QK_CORRECT_QUESTIONS], Quiz'[QK_CORRECT_QUESTIONS])
                 /\ C24_Extends(Quiz[QK_INCORRECT_QUESTIONS],
                                Quiz'[QK_INCORRECT_QUESTIONS]) ) ]_vars

\* C24 witness: two questions counted incorrect, logged in the order in
\* which they were resolved, the question of row 1 before that of row 0.
C24_Witness ==
    /\ HasQuiz
    /\ Quiz[QK_INCORRECT_COUNT] = 2
    /\ Len(Quiz[QK_INCORRECT_QUESTIONS]) = 2
    /\ Quiz[QK_INCORRECT_QUESTIONS][1]["Question"] = <<"Q", "2">>
    /\ Quiz[QK_INCORRECT_QUESTIONS][2]["Question"] = <<"Q", ";", " ", "1">>

\* C25: after an execution that loaded the uploaded file and failed, with
\* any of the load errors, session_state has no bank, no loaded file name,
\* no quiz state and no current index.
C25_FailedLoadClears ==
    [][ (C10_Loads /\ C11_Failure(uploaded_file'[1]) # None)
        => ( /\ SS_FLASHCARDS \notin DOMAIN session_state'
             /\ SS_LOADED_FILE_NAME \notin DOMAIN session_state'
             /\ SS_QUIZ_DATA \notin DOMAIN session_state'
             /\ SS_CURRENT_INDEX \notin DOMAIN session_state'
             /\ C11_Failure(uploaded_file'[1]) \in notices' ) ]_vars

\* C25 witness: after an attempt of user u was completed and recorded, a file
\* without a valid question was uploaded and nothing of the bank or of the
\* session is left.
C25_Witness ==
    /\ ~rerun
    /\ uploaded_file = Some(File(FCsv, <<RowE>>))
    /\ NoValidQuestions \in notices
    /\ DOMAIN session_state = {SS_USER}
    /\ \E i \in 1..Len(results_file.rows) : results_file.rows[i]["User"] = "u"

====
